---- MODULE Spec2Model ----
(***************************************************************************)
(* Model of main.go: the one-shot migration of the open issues (and their  *)
(* comments) of a list of GitHub repositories into Pivotal Tracker stories.*)
(* The program is sequential; one action of the model is one stretch of    *)
(* main/migrateIssue that ends in (at most) one remote call.  `trace` is   *)
(* the record of everything the run did that is visible from outside: the  *)
(* remote calls with their arguments and results, the printed blocks and   *)
(* the fatal log line.                                                     *)
(***************************************************************************)
EXTENDS Integers, Sequences, FiniteSets, TLC

VARIABLES flags, pc, repoIdx, iss, isIdx, newStory, ghComments, cmIdx,
          nextStoryId, sourceLeft, pivotal, trace,
          fnArg, fnRes

vars == <<flags, pc, repoIdx, iss, isIdx, newStory, ghComments, cmIdx,
          nextStoryId, sourceLeft, pivotal, trace, fnArg, fnRes>>

----------------------------------------------------------------------------
(* Bounds of the model *)

MaxRepos == 2
MaxIssues == 2
MaxComments == 2
(* The records (issues and comments) the source service holds in all *)
MaxRecords == 3
(* The longest string given to trunc *)
MaxStrLen == 300

(* Program constants *)

CommentsPerPage == 1000
TruncLen == 255

----------------------------------------------------------------------------
(* Go pointers: a pointer field is <<>> (nil) or <<v>>.                     *)

Nil == <<>>
Ptr(v) == <<v>>
IsNil(p) == p = <<>>
Deref(p) == p[1]

Min(a, b) == IF a <= b THEN a ELSE b

RECURSIVE SeqsUpTo(_, _)
SeqsUpTo(S, n) ==
  IF n <= 0 THEN {<<>>}
  ELSE LET shorter == SeqsUpTo(S, n - 1)
       IN  shorter \cup {Append(s, x) : s \in {t \in shorter : Len(t) = n - 1}, x \in S}

----------------------------------------------------------------------------
(* Inputs: the command line and the records the source service can return.  *)

Owner == "acme"
(* The -pt-proj-id given, and the identifier the destination gives the    *)
(* first story it creates; later stories get the following numbers.       *)
ProjIds == {99}
FirstStoryIds == {7}
RepoNames == {"widgets", "gears"}
(* The program treats repository names as opaque strings, so the lists are  *)
(* taken up to renaming: a non-empty list starts with "widgets".            *)
RepoLists ==
  {s \in SeqsUpTo(RepoNames, MaxRepos) : s = <<>> \/ s[1] = "widgets"}
(* The values of -limit *)
Limits == {1, 2}

RECURSIVE Repeat(_, _)
Repeat(s, n) == IF n <= 0 THEN "" ELSE s \o Repeat(s, n - 1)

(* A body of three hundred bytes, longer than what trunc keeps *)
LongBody == Repeat("0123456789", 30)

(* time.Time values are day numbers; TimeString is Time.String().           *)
TimeString(t) == "2015-06-0" \o SubSeq("0123456789", t + 1, t + 1) \o " 10:00:00 +0000 UTC"

IssuePool ==
  { [Number |-> Ptr(42), Title |-> Ptr("Bug: crash on load"),
     HTMLURL |-> Ptr("https://gh/acme/i/42"), CreatedAt |-> Ptr(1),
     Body |-> Ptr("steps..."), Labels |-> <<"bug">>],
    [Number |-> Ptr(43), Title |-> Ptr("Add docs"),
     HTMLURL |-> Ptr("https://gh/acme/i/43"), CreatedAt |-> Ptr(2),
     Body |-> Ptr("please: " \o LongBody), Labels |-> <<"docs", "easy">>],
    [Number |-> Ptr(44), Title |-> Ptr("No description"),
     HTMLURL |-> Ptr("https://gh/acme/i/44"), CreatedAt |-> Ptr(3),
     Body |-> Nil, Labels |-> <<>>] }

CommentPool ==
  { [HTMLURL |-> Ptr("https://gh/acme/c/1"), CreatedAt |-> Ptr(4),
     User |-> Ptr([Login |-> Ptr("alice")]), Body |-> Ptr("confirmed")],
    [HTMLURL |-> Ptr("https://gh/acme/c/2"), CreatedAt |-> Ptr(5),
     User |-> Ptr([Login |-> Ptr("bob")]), Body |-> Ptr("me too: " \o LongBody)] }

----------------------------------------------------------------------------
(* fmt verbs *)

RECURSIVE IntString(_)
IntString(n) ==
  IF n < 10 THEN SubSeq("0123456789", n + 1, n + 1)
  ELSE IntString(n \div 10) \o SubSeq("0123456789", (n % 10) + 1, (n % 10) + 1)

Quote(s) == "\"" \o s \o "\""

RECURSIVE JoinQuoted(_)
JoinQuoted(names) ==
  IF names = <<>> THEN ""
  ELSE IF Len(names) = 1 THEN Quote(names[1])
  ELSE Quote(names[1]) \o " " \o JoinQuoted(Tail(names))

(* %q of a slice of strings (or of Stringers): ["a" "b"] *)
SliceQ(names) == "[" \o JoinQuoted(names) \o "]"

(* The code fence of the provenance block is three backquotes; a TLA+      *)
(* string cannot hold a backquote, so an apostrophe stands for it.          *)
Fence == "'''"

----------------------------------------------------------------------------
(* trunc, main.go:235.  len and the slice count bytes. *)

(* Variant: the cut is one short *)
truncOneShort(s) == IF Len(s) < TruncLen THEN s ELSE SubSeq(s, 1, TruncLen - 1)

trunc(s) == IF Len(s) < TruncLen THEN s ELSE SubSeq(s, 1, TruncLen)

(* convertIssue, main.go:136.  The dereferences of lines 150-154 panic on  *)
(* a nil field.                                                             *)

convertIssuePanics(is) ==
  IsNil(is.HTMLURL) \/ IsNil(is.CreatedAt) \/ IsNil(is.Body) \/ IsNil(is.Title)

(* Variant: the repository label is left out *)
StoryLabelsNoRepo(repo) == <<"github-migrated">>

StoryLabels(repo) == <<"github-migrated", "github-repo/" \o repo>>

IssueProvenance(is) ==
  Deref(is.HTMLURL) \o "\n" \o Fence
    \o "\nMigrated from Github\nCreated: " \o TimeString(Deref(is.CreatedAt))
    \o "\nLabels: " \o SliceQ(is.Labels) \o "\n"
    \o Fence \o "\n\n"

(* Variant: the body comes before the provenance block *)
convertIssueBodyFirst(repo, is) ==
  [Name        |-> Deref(is.Title),
   Description |-> Deref(is.Body) \o IssueProvenance(is),
   Labels      |-> StoryLabels(repo),
   Type        |-> "feature",
   State       |-> "unscheduled"]

convertIssue(repo, is) ==
  [Name        |-> Deref(is.Title),
   Description |-> IssueProvenance(is) \o Deref(is.Body),
   Labels      |-> StoryLabels(repo),
   Type        |-> "feature",
   State       |-> "unscheduled"]

(* convertComment, main.go:164 *)

convertCommentPanics(cm) ==
  \/ IsNil(cm.HTMLURL) \/ IsNil(cm.CreatedAt) \/ IsNil(cm.User)
  \/ (~IsNil(cm.User) /\ IsNil(Deref(cm.User).Login))
  \/ IsNil(cm.Body)

(* Variant: the block does not name the author *)
CommentProvenanceNoAuthor(cm) ==
  Deref(cm.HTMLURL) \o "\n" \o Fence
    \o "\nMigrated from Github\nCreated: " \o TimeString(Deref(cm.CreatedAt))
    \o "\n" \o Fence \o "\n\n"

CommentProvenance(cm) ==
  Deref(cm.HTMLURL) \o "\n" \o Fence
    \o "\nMigrated from Github\nCreated: " \o TimeString(Deref(cm.CreatedAt))
    \o "\nAuthor: " \o Deref(Deref(cm.User).Login) \o "\n"
    \o Fence \o "\n\n"

convertComment(cm) == [Text |-> CommentProvenance(cm) \o Deref(cm.Body)]

----------------------------------------------------------------------------
(* The printers, main.go:183-233: the text each one writes.                 *)

printIssuePanics(is) ==
  IsNil(is.Number) \/ IsNil(is.Title) \/ IsNil(is.HTMLURL) \/ IsNil(is.CreatedAt)

printIssue(is) ==
  "\n--- issue ---\nNumber: " \o IntString(Deref(is.Number))
    \o "\nTitle: " \o Deref(is.Title)
    \o "\nURL: " \o Deref(is.HTMLURL)
    \o "\nCreated: " \o TimeString(Deref(is.CreatedAt))
    \o "\nLabels: " \o SliceQ(is.Labels)
    \o "\n--- /issue ---\n"

printStory(sr) ==
  "\n--- story ---\nName: " \o sr.Name
    \o "\nDescription: " \o trunc(sr.Description)
    \o "\nType: " \o sr.Type
    \o "\nState: " \o sr.State
    \o "\nLabels: " \o SliceQ(sr.Labels)
    \o "\n--- /story ---\n"

printIssueCommentPanics(cm) ==
  \/ IsNil(cm.User)
  \/ (~IsNil(cm.User) /\ IsNil(Deref(cm.User).Login))
  \/ IsNil(cm.CreatedAt) \/ IsNil(cm.Body)

printIssueComment(cm) ==
  "\n--- issue comment ---\nAuthor: " \o Deref(Deref(cm.User).Login)
    \o "\nCreated: " \o TimeString(Deref(cm.CreatedAt))
    \o "\nBody: " \o trunc(Deref(cm.Body))
    \o "\n--- /issue comment ---\n"

printStoryComment(c) ==
  "\n--- story comment ---\nText: " \o trunc(c.Text) \o "\n--- /story comment ---\n"

----------------------------------------------------------------------------
(* Entries of the trace.  r, i, c are the positions (repository, issue,     *)
(* comment) the run was at; 0 where the level does not apply.               *)

Call(op, arg, ok, res) ==
  [ev |-> op, r |-> repoIdx, i |-> isIdx, c |-> cmIdx, ok |-> ok, arg |-> arg, res |-> res]

Printed(block, text) ==
  [ev |-> "print", r |-> repoIdx, i |-> isIdx, c |-> cmIdx, ok |-> TRUE,
   arg |-> [block |-> block, text |-> text], res |-> Nil]

Fatal(msg) ==
  [ev |-> "fatal", r |-> repoIdx, i |-> isIdx, c |-> cmIdx, ok |-> FALSE,
   arg |-> [msg |-> msg], res |-> Nil]

RemoteOps == {"listIssues", "listComments", "createStory", "addComment"}
SourceOps == {"listIssues", "listComments"}
DestOps == {"createStory", "addComment"}

repos == flags.repos
repo == repos[repoIdx]
is == iss[isIdx]
cm == ghComments[cmIdx]

----------------------------------------------------------------------------
(* The state after flag.Parse() and initClients(), main.go:42-43.           *)

Init ==
  /\ flags \in [owner : {Owner}, repos : RepoLists,
                ptProjId : ProjIds, limit : Limits, dryRun : BOOLEAN]
  /\ pc = "main"
  /\ repoIdx = 0
  /\ iss = <<>>
  /\ isIdx = 0
  /\ newStory = Nil
  /\ ghComments = <<>>
  /\ cmIdx = 0
  /\ nextStoryId \in FirstStoryIds
  /\ sourceLeft = MaxRecords
  /\ pivotal = <<>>
  /\ trace = <<>>
  /\ fnArg = Nil
  /\ fnRes = Nil

(* Variant: the list is not checked *)
CheckReposSkipped ==
  /\ pc = "main"
  /\ pc' = "repoLoop"
  /\ repoIdx' = 1
  /\ UNCHANGED <<flags, fnArg, fnRes, pivotal, iss, isIdx, newStory, ghComments, cmIdx, nextStoryId, sourceLeft, trace>>

(* main.go:45-48 *)
CheckRepos ==
  /\ pc = "main"
  /\ IF Len(repos) < 1
       THEN /\ pc' = "Fatal"
            /\ trace' = Append(trace, Fatal("no github repos specified"))
            /\ UNCHANGED repoIdx
       ELSE /\ pc' = "repoLoop"
            /\ repoIdx' = 1
            /\ UNCHANGED trace
  /\ UNCHANGED <<flags, fnArg, fnRes, pivotal, iss, isIdx, newStory, ghComments, cmIdx, nextStoryId, sourceLeft>>

(* Variant: the page size of the comment listing is used *)
ListByRepoArgsFixedPage ==
  [owner |-> flags.owner, repo |-> repo, state |-> "open", perPage |-> CommentsPerPage]

(* The arguments of ghSvc.ListByRepo, main.go:52-57 *)
ListByRepoArgs ==
  [owner |-> flags.owner, repo |-> repo, state |-> "open", perPage |-> flags.limit]

(* What the source service may answer: at most perPage issues.              *)
IssuePages(perPage) == SeqsUpTo(IssuePool, Min(Min(perPage, MaxIssues), sourceLeft))

Reverse(s) == [k \in 1..Len(s) |-> s[Len(s) + 1 - k]]

(* Variant: the issues are walked last to first *)
ListIssuesOkReversed ==
  /\ pc = "repoLoop"
  /\ repoIdx <= Len(repos)
  /\ \E page \in IssuePages(ListByRepoArgs.perPage) :
       /\ iss' = Reverse(page)
       /\ sourceLeft' = sourceLeft - Len(page)
       /\ trace' = trace \o
            << Printed("analysing", "Analysing repo: " \o flags.owner \o "/" \o repo \o "\n"),
               Call("listIssues", ListByRepoArgs, TRUE, page),
               Printed("found issues", "found " \o IntString(Len(page)) \o " issues to migrate") >>
  /\ isIdx' = 1
  /\ pc' = "issueLoop"
  /\ UNCHANGED <<flags, fnArg, fnRes, pivotal, repoIdx, newStory, ghComments, cmIdx, nextStoryId>>

(* main.go:50-61, the call succeeds *)
ListIssuesOk ==
  /\ pc = "repoLoop"
  /\ repoIdx <= Len(repos)
  /\ \E page \in IssuePages(ListByRepoArgs.perPage) :
       /\ iss' = page
       /\ sourceLeft' = sourceLeft - Len(page)
       /\ trace' = trace \o
            << Printed("analysing", "Analysing repo: " \o flags.owner \o "/" \o repo \o "\n"),
               Call("listIssues", ListByRepoArgs, TRUE, page),
               Printed("found issues", "found " \o IntString(Len(page)) \o " issues to migrate") >>
  /\ isIdx' = 1
  /\ pc' = "issueLoop"
  /\ UNCHANGED <<flags, fnArg, fnRes, pivotal, repoIdx, newStory, ghComments, cmIdx, nextStoryId>>

(* Variant: the failure is logged and the run goes on to the next          *)
(* repository                                                               *)
ListIssuesFailSkipsRepo ==
  /\ pc = "repoLoop"
  /\ repoIdx <= Len(repos)
  /\ trace' = trace \o
       << Printed("analysing", "Analysing repo: " \o flags.owner \o "/" \o repo \o "\n"),
          Call("listIssues", ListByRepoArgs, FALSE, Nil) >>
  /\ repoIdx' = repoIdx + 1
  /\ UNCHANGED <<flags, fnArg, fnRes, pivotal, pc, iss, isIdx, newStory, ghComments, cmIdx, nextStoryId, sourceLeft>>

(* main.go:50-60, the call fails: log.Fatalf *)
ListIssuesFail ==
  /\ pc = "repoLoop"
  /\ repoIdx <= Len(repos)
  /\ trace' = trace \o
       << Printed("analysing", "Analysing repo: " \o flags.owner \o "/" \o repo \o "\n"),
          Call("listIssues", ListByRepoArgs, FALSE, Nil),
          Fatal("failed to list issues for repo: " \o repo) >>
  /\ pc' = "Fatal"
  /\ UNCHANGED <<flags, fnArg, fnRes, pivotal, repoIdx, iss, isIdx, newStory, ghComments, cmIdx, nextStoryId, sourceLeft>>

(* main.go:62-65: the issues of the repository are exhausted *)
RepoDone ==
  /\ pc = "issueLoop"
  /\ isIdx > Len(iss)
  /\ repoIdx' = repoIdx + 1
  /\ isIdx' = 0
  /\ pc' = "repoLoop"
  /\ UNCHANGED <<flags, fnArg, fnRes, pivotal, iss, newStory, ghComments, cmIdx, nextStoryId, sourceLeft, trace>>

(* main.go:67-68 *)
Finished ==
  /\ pc = "repoLoop"
  /\ repoIdx > Len(repos)
  /\ trace' = Append(trace, [Printed("finished", "Finished.\n") EXCEPT !.r = 0])
  /\ pc' = "Done"
  /\ UNCHANGED <<flags, fnArg, fnRes, pivotal, repoIdx, iss, isIdx, newStory, ghComments, cmIdx, nextStoryId, sourceLeft>>

----------------------------------------------------------------------------
(* migrateIssue, main.go:93-134 *)

AtIssue == pc = "issueLoop" /\ isIdx <= Len(iss)
AtComment == pc = "commentLoop" /\ cmIdx <= Len(ghComments)

Begin == Printed("begin", "\n===== begin =====\n\n")
End == Printed("end", "\n===== end =====\n\n")

(* Variant: the dry-run flag is not consulted *)
WritesRegardless == TRUE

(* The gate of main.go:100 and main.go:122 *)
WritesToDestination == ~flags.dryRun

(* A dereference of a nil pointer at the place the run is at: a runtime     *)
(* panic (main.go:99-102 through convertIssue and printIssue, main.go:110,  *)
(* main.go:121-126 through convertComment and printIssueComment).           *)
PanicsHere ==
  \/ /\ AtIssue
     /\ \/ convertIssuePanics(is)
        \/ ~WritesToDestination /\ printIssuePanics(is)
  \/ /\ pc = "listComments"
     /\ IsNil(is.Number)
  \/ /\ AtComment
     /\ \/ convertCommentPanics(cm)
        \/ ~WritesToDestination /\ printIssueCommentPanics(cm)
        \/ WritesToDestination /\ IsNil(newStory)

NilDereference ==
  /\ PanicsHere
  /\ pc' = "Panic"
  /\ trace' = IF pc = "issueLoop" THEN Append(trace, Begin) ELSE trace
  /\ UNCHANGED <<flags, fnArg, fnRes, pivotal, repoIdx, iss, isIdx, newStory, ghComments, cmIdx, nextStoryId, sourceLeft>>

(* main.go:94-102: dry run, the issue and its story request are printed *)
DryRunIssue ==
  /\ AtIssue
  /\ ~PanicsHere
  /\ ~WritesToDestination
  /\ newStory' = Nil
  /\ trace' = trace \o
       << Begin,
          Printed("issue", printIssue(is)),
          Printed("story", printStory(convertIssue(repo, is))) >>
  /\ pc' = "listComments"
  /\ UNCHANGED <<flags, fnArg, fnRes, pivotal, repoIdx, iss, isIdx, ghComments, cmIdx, nextStoryId, sourceLeft>>

(* The destination project: the stories created in it, each with the      *)
(* comments attached to it, in the order of their creation.  These are the  *)
(* effects of ptSvc.Create (main.go:104) and ptSvc.AddComment (main.go:126);*)
(* the program calls no operation that removes or changes a story.          *)
StoryAdded(project, id, req) ==
  Append(project, [Id |-> id, req |-> req, comments |-> <<>>])

CommentAdded(project, storyId, comment) ==
  [k \in DOMAIN project |->
     IF project[k].Id = storyId
       THEN [project[k] EXCEPT !.comments = Append(@, comment)]
       ELSE project[k]]

(* Variant: the description is cut the way the printed one is *)
CreateArgsTruncated ==
  [projId |-> flags.ptProjId,
   req |-> [convertIssue(repo, is) EXCEPT !.Description = trunc(@)]]

(* The arguments of ptSvc.Create, main.go:104 *)
CreateArgs == [projId |-> flags.ptProjId, req |-> convertIssue(repo, is)]

(* main.go:94-108: live, the story is created; the destination assigns the *)
(* identifier.                                                              *)
CreateStoryOk ==
  /\ AtIssue
  /\ ~PanicsHere
  /\ WritesToDestination
  /\ newStory' = Ptr([Id |-> nextStoryId])
  /\ nextStoryId' = nextStoryId + 1
  /\ pivotal' = StoryAdded(pivotal, nextStoryId, CreateArgs.req)
  /\ trace' = trace \o
       << Begin, Call("createStory", CreateArgs, TRUE, Ptr([Id |-> nextStoryId])) >>
  /\ pc' = "listComments"
  /\ UNCHANGED <<flags, fnArg, fnRes, repoIdx, iss, isIdx, ghComments, cmIdx, sourceLeft>>

(* Variant: when a comment cannot be attached the story is taken back *)
AddCommentFailRollsBack ==
  /\ pc = "commentLoop" /\ cmIdx <= Len(ghComments)
  /\ flags.dryRun = FALSE
  /\ trace' = trace \o
       << Call("addComment",
               [projId |-> flags.ptProjId, storyId |-> Deref(newStory).Id,
                req |-> convertComment(cm)], FALSE, Nil),
          Fatal("error creating comment") >>
  /\ pivotal' = SubSeq(pivotal, 1, Len(pivotal) - 1)
  /\ pc' = "Fatal"
  /\ UNCHANGED <<flags, fnArg, fnRes, repoIdx, iss, isIdx, newStory, ghComments, cmIdx, nextStoryId, sourceLeft>>

(* main.go:104-107: live, the creation fails: log.Fatalf *)
CreateStoryFail ==
  /\ AtIssue
  /\ ~PanicsHere
  /\ WritesToDestination
  /\ newStory' = Nil
  /\ trace' = trace \o
       << Begin, Call("createStory", CreateArgs, FALSE, Nil),
          Fatal("error creating story") >>
  /\ pc' = "Fatal"
  /\ UNCHANGED <<flags, fnArg, fnRes, pivotal, repoIdx, iss, isIdx, ghComments, cmIdx, nextStoryId, sourceLeft>>

(* The arguments of ghSvc.ListComments, main.go:110-114 *)
ListCommentsArgs ==
  [owner |-> flags.owner, repo |-> repo, number |-> Deref(is.Number),
   perPage |-> CommentsPerPage]

CommentPages(perPage) == SeqsUpTo(CommentPool, Min(Min(perPage, MaxComments), sourceLeft))

(* main.go:110-119, the call succeeds *)
ListCommentsOk ==
  /\ pc = "listComments"
  /\ ~PanicsHere
  /\ \E page \in CommentPages(ListCommentsArgs.perPage) :
       /\ ghComments' = page
       /\ sourceLeft' = sourceLeft - Len(page)
       /\ trace' = trace \o
            << Call("listComments", ListCommentsArgs, TRUE, page),
               Printed("found comments",
                       "found " \o IntString(Len(page)) \o " comments for issue number: "
                         \o IntString(Deref(is.Number))) >>
  /\ cmIdx' = 1
  /\ pc' = "commentLoop"
  /\ UNCHANGED <<flags, fnArg, fnRes, pivotal, repoIdx, iss, isIdx, newStory, nextStoryId>>

(* main.go:110-117, the call fails: log.Fatalf *)
ListCommentsFail ==
  /\ pc = "listComments"
  /\ ~PanicsHere
  /\ trace' = trace \o
       << Call("listComments", ListCommentsArgs, FALSE, Nil),
          Fatal("failed to list gh comments for repo: " \o repo \o ", issue "
                  \o IntString(Deref(is.Number))) >>
  /\ pc' = "Fatal"
  /\ UNCHANGED <<flags, fnArg, fnRes, pivotal, repoIdx, iss, isIdx, newStory, ghComments, cmIdx, nextStoryId, sourceLeft>>

(* main.go:120-124: dry run, the comment and its conversion are printed *)
DryRunComment ==
  /\ AtComment
  /\ ~PanicsHere
  /\ ~WritesToDestination
  /\ trace' = trace \o
       << Printed("issue comment", printIssueComment(cm)),
          Printed("story comment", printStoryComment(convertComment(cm))) >>
  /\ cmIdx' = cmIdx + 1
  /\ UNCHANGED <<flags, fnArg, fnRes, pivotal, pc, repoIdx, iss, isIdx, newStory, ghComments, nextStoryId, sourceLeft>>

(* Variant: the two integer arguments of AddComment are swapped *)
AddCommentArgsSwapped ==
  [projId |-> Deref(newStory).Id, storyId |-> flags.ptProjId, req |-> convertComment(cm)]

(* The arguments of ptSvc.AddComment, main.go:126 *)
AddCommentArgs ==
  [projId |-> flags.ptProjId, storyId |-> Deref(newStory).Id, req |-> convertComment(cm)]

(* main.go:120-130: live, the comment is attached *)
AddCommentOk ==
  /\ AtComment
  /\ ~PanicsHere
  /\ WritesToDestination
  /\ trace' = Append(trace, Call("addComment", AddCommentArgs, TRUE, Nil))
  /\ pivotal' = CommentAdded(pivotal, AddCommentArgs.storyId, AddCommentArgs.req)
  /\ cmIdx' = cmIdx + 1
  /\ UNCHANGED <<flags, fnArg, fnRes, pc, repoIdx, iss, isIdx, newStory, ghComments, nextStoryId, sourceLeft>>

(* Variant: the failure is logged and the next comment is tried *)
AddCommentFailSkipsComment ==
  /\ AtComment
  /\ ~PanicsHere
  /\ WritesToDestination
  /\ trace' = Append(trace, Call("addComment", AddCommentArgs, FALSE, Nil))
  /\ cmIdx' = cmIdx + 1
  /\ UNCHANGED <<flags, fnArg, fnRes, pivotal, pc, repoIdx, iss, isIdx, newStory, ghComments, nextStoryId, sourceLeft>>

(* main.go:126-129: live, attaching fails: log.Fatalf *)
AddCommentFail ==
  /\ AtComment
  /\ ~PanicsHere
  /\ WritesToDestination
  /\ trace' = trace \o
       << Call("addComment", AddCommentArgs, FALSE, Nil),
          Fatal("error creating comment") >>
  /\ pc' = "Fatal"
  /\ UNCHANGED <<flags, fnArg, fnRes, pivotal, repoIdx, iss, isIdx, newStory, ghComments, cmIdx, nextStoryId, sourceLeft>>

(* Variant: the comment loop is left after the first comment *)
IssueDoneAfterFirst ==
  /\ pc = "commentLoop"
  /\ (cmIdx > Len(ghComments) \/ cmIdx > 1)
  /\ trace' = Append(trace, [Printed("end", "\n===== end =====\n\n") EXCEPT !.c = 0])
  /\ isIdx' = isIdx + 1
  /\ cmIdx' = 0
  /\ pc' = "issueLoop"
  /\ UNCHANGED <<flags, fnArg, fnRes, pivotal, repoIdx, iss, newStory, ghComments, nextStoryId, sourceLeft>>

(* main.go:131-134 and main.go:62: the comments are exhausted, next issue *)
IssueDone ==
  /\ pc = "commentLoop"
  /\ cmIdx > Len(ghComments)
  /\ trace' = Append(trace, [End EXCEPT !.c = 0])
  /\ isIdx' = isIdx + 1
  /\ cmIdx' = 0
  /\ pc' = "issueLoop"
  /\ UNCHANGED <<flags, fnArg, fnRes, pivotal, repoIdx, iss, newStory, ghComments, nextStoryId, sourceLeft>>

Next ==
  \/ CheckRepos
  \/ ListIssuesOk
  \/ ListIssuesFail
  \/ RepoDone
  \/ Finished
  \/ NilDereference
  \/ DryRunIssue
  \/ CreateStoryOk
  \/ CreateStoryFail
  \/ ListCommentsOk
  \/ ListCommentsFail
  \/ DryRunComment
  \/ AddCommentOk
  \/ AddCommentFail
  \/ IssueDone

Spec == Init /\ [][Next]_vars

----------------------------------------------------------------------------
(* Reading the trace *)

Idx == DOMAIN trace
IsCall(k) == trace[k].ev \in RemoteOps
IsPrint(k, block) == trace[k].ev = "print" /\ trace[k].arg.block = block

(* The entries of one kind at one position *)
CallsAt(op, r, i) ==
  {k \in Idx : trace[k].ev = op /\ trace[k].r = r /\ trace[k].i = i}
PrintsAt(block, r, i, c) ==
  {k \in Idx : IsPrint(k, block) /\ trace[k].r = r /\ trace[k].i = i /\ trace[k].c = c}

Terminated == pc \in {"Done", "Fatal", "Panic"}
NoRemoteFailure == \A k \in Idx : IsCall(k) => trace[k].ok

(* Where in the per-issue sequence an entry belongs: 0 the repository's    *)
(* listing, 1 the story, 2 the fetch of the comments, 3 a comment, 4 the    *)
(* end of the issue.                                                        *)
Phase(e) ==
  IF e.ev = "listIssues" \/ (e.ev = "print" /\ e.arg.block \in {"analysing", "found issues"})
    THEN 0
  ELSE IF e.ev = "createStory" \/ (e.ev = "print" /\ e.arg.block \in {"begin", "issue", "story"})
    THEN 1
  ELSE IF e.ev = "listComments" \/ (e.ev = "print" /\ e.arg.block = "found comments")
    THEN 2
  ELSE IF e.ev = "addComment"
          \/ (e.ev = "print" /\ e.arg.block \in {"issue comment", "story comment"})
    THEN 3
  ELSE 4

Rank(e) == <<e.r, e.i, Phase(e), e.c>>

RankLess(a, b) ==
  \/ a[1] < b[1]
  \/ a[1] = b[1] /\ a[2] < b[2]
  \/ a[1] = b[1] /\ a[2] = b[2] /\ a[3] < b[3]
  \/ a[1] = b[1] /\ a[2] = b[2] /\ a[3] = b[3] /\ a[4] < b[4]

Ordered(k) == trace[k].ev \notin {"fatal"} /\ ~IsPrint(k, "finished")

----------------------------------------------------------------------------
(* C1: in dry-run mode no reachable state of the run, completed or aborted, *)
(* holds a call to the destination's createStory or addComment.             *)
C1_DryRunNeverWrites ==
  flags.dryRun => \A k \in Idx : trace[k].ev \notin DestOps

(* A dry run that went through an issue and one of its comments *)
C1_Witness ==
  /\ flags.dryRun
  /\ Terminated
  /\ \E k \in Idx : IsPrint(k, "story")
  /\ \E k \in Idx : IsPrint(k, "story comment")

(* C2: every addComment call carries the identifier the destination        *)
(* returned from the successful createStory call of the same issue, a call  *)
(* that precedes it, and no story of another issue has that identifier.     *)
C2_CommentReferencesOwnStory ==
  \A k \in Idx :
    trace[k].ev = "addComment" =>
      /\ \E j \in 1..(k - 1) :
           /\ trace[j].ev = "createStory"
           /\ trace[j].ok
           /\ trace[j].r = trace[k].r
           /\ trace[j].i = trace[k].i
           /\ trace[k].arg.storyId = Deref(trace[j].res).Id
      /\ \A j \in Idx :
           (/\ trace[j].ev = "createStory"
            /\ trace[j].ok
            /\ Deref(trace[j].res).Id = trace[k].arg.storyId)
             => (trace[j].r = trace[k].r /\ trace[j].i = trace[k].i)

(* A comment attached to the story of an issue that is not the first one   *)
(* created in the run                                                       *)
C2_Witness ==
  \E k \in Idx :
    /\ trace[k].ev = "addComment"
    /\ trace[k].ok
    /\ \E j \in 1..(k - 1) :
         trace[j].ev = "createStory" /\ trace[j].ok
           /\ <<trace[j].r, trace[j].i>> # <<trace[k].r, trace[k].i>>

----------------------------------------------------------------------------
(* What the source returned, read back from the trace *)

IssuesListed(r) ==
  LET ks == {k \in CallsAt("listIssues", r, 0) : trace[k].ok}
  IN  IF ks = {} THEN <<>> ELSE trace[CHOOSE k \in ks : TRUE].res

CommentsListed(r, i) ==
  LET ks == {k \in CallsAt("listComments", r, i) : trace[k].ok}
  IN  IF ks = {} THEN <<>> ELSE trace[CHOOSE k \in ks : TRUE].res

(* The comment phase of issue i of repository r has run to its end *)
CommentsComplete(r, i) ==
  /\ \E k \in CallsAt("listComments", r, i) : trace[k].ok
  /\ \A c \in 1..Len(CommentsListed(r, i)) :
       IF flags.dryRun
         THEN /\ PrintsAt("issue comment", r, i, c) # {}
              /\ PrintsAt("story comment", r, i, c) # {}
         ELSE \E k \in CallsAt("addComment", r, i) : trace[k].c = c /\ trace[k].ok
  /\ PrintsAt("end", r, i, 0) # {}

(* C3: per issue the steps happen in the strict order story (created or    *)
(* printed), fetch of the comments, comments (attached or printed); the     *)
(* entries of the trace never step back to an earlier repository, issue,    *)
(* phase or comment, no remote call is made twice at one place, and nothing *)
(* of a later issue or repository happens before the current issue's        *)
(* comments are all done.                                                   *)
C3_StrictPerIssueOrder ==
  /\ \A k \in Idx :
       (k < Len(trace) /\ Ordered(k) /\ Ordered(k + 1))
         => ~RankLess(Rank(trace[k + 1]), Rank(trace[k]))
  /\ \A k, l \in {m \in Idx : IsCall(m)} :
       k < l => RankLess(Rank(trace[k]), Rank(trace[l]))
  /\ \A k \in Idx :
       /\ trace[k].ev = "listComments" =>
            IF flags.dryRun
              THEN /\ \E j \in 1..(k - 1) :
                        IsPrint(j, "issue") /\ trace[j].r = trace[k].r /\ trace[j].i = trace[k].i
                   /\ \E j \in 1..(k - 1) :
                        IsPrint(j, "story") /\ trace[j].r = trace[k].r /\ trace[j].i = trace[k].i
              ELSE \E j \in 1..(k - 1) :
                     /\ trace[j].ev = "createStory" /\ trace[j].ok
                     /\ trace[j].r = trace[k].r /\ trace[j].i = trace[k].i
       /\ (trace[k].ev = "addComment" \/ IsPrint(k, "issue comment"))
            => \E j \in 1..(k - 1) :
                 /\ trace[j].ev = "listComments" /\ trace[j].ok
                 /\ trace[j].r = trace[k].r /\ trace[j].i = trace[k].i
  /\ \A k \in Idx :
       IsPrint(k, "begin") =>
         LET r == trace[k].r
             i == trace[k].i
         IN  (\E l \in (k + 1)..Len(trace) :
                /\ trace[l].ev # "fatal"
                /\ <<trace[l].r, trace[l].i>> # <<r, i>>)
               => CommentsComplete(r, i)

(* A live run in which an issue with a comment was followed by another     *)
(* issue                                                                    *)
C3_Witness ==
  /\ ~flags.dryRun
  /\ \E k, l \in Idx :
       /\ k < l
       /\ trace[k].ev = "addComment"
       /\ trace[l].ev = "listComments"
       /\ <<trace[k].r, trace[k].i>> # <<trace[l].r, trace[l].i>>

(* C4: input order is kept at every level, nothing is reordered and nothing *)
(* is dropped as a duplicate: the n-th listIssues call is for the n-th      *)
(* configured repository, the n-th story (created or printed) of a          *)
(* repository is the conversion of the n-th issue listIssues returned, the  *)
(* n-th comment (attached or printed) of an issue is the conversion of the  *)
(* n-th comment listComments returned, the destination sees its calls in    *)
(* that order, and a run that reaches Done has processed every occurrence.  *)
C4_InputOrderPreserved ==
  /\ \A k \in Idx :
       trace[k].ev = "listIssues" =>
         /\ Cardinality({j \in 1..k : trace[j].ev = "listIssues"}) = trace[k].r
         /\ trace[k].r \in 1..Len(repos)
         /\ trace[k].arg.repo = repos[trace[k].r]
  /\ \A k \in Idx :
       LET r == trace[k].r
           i == trace[k].i
           c == trace[k].c
       IN  /\ trace[k].ev = "createStory" =>
                /\ Cardinality({j \in 1..k : trace[j].ev = "createStory" /\ trace[j].r = r}) = i
                /\ i \in 1..Len(IssuesListed(r))
                /\ trace[k].arg.req = convertIssue(repos[r], IssuesListed(r)[i])
           /\ IsPrint(k, "issue") =>
                /\ Cardinality({j \in 1..k : IsPrint(j, "issue") /\ trace[j].r = r}) = i
                /\ i \in 1..Len(IssuesListed(r))
                /\ trace[k].arg.text = printIssue(IssuesListed(r)[i])
           /\ trace[k].ev = "addComment" =>
                /\ Cardinality({j \in 1..k : trace[j].ev = "addComment"
                                               /\ trace[j].r = r /\ trace[j].i = i}) = c
                /\ c \in 1..Len(CommentsListed(r, i))
                /\ trace[k].arg.req = convertComment(CommentsListed(r, i)[c])
           /\ IsPrint(k, "issue comment") =>
                /\ Cardinality({j \in 1..k : IsPrint(j, "issue comment")
                                               /\ trace[j].r = r /\ trace[j].i = i}) = c
                /\ c \in 1..Len(CommentsListed(r, i))
                /\ trace[k].arg.text = printIssueComment(CommentsListed(r, i)[c])
  /\ \A k, l \in {m \in Idx : trace[m].ev \in DestOps} :
       k < l => RankLess(Rank(trace[k]), Rank(trace[l]))
  /\ pc = "Done" =>
       \A r \in 1..Len(repos) :
         /\ \E k \in CallsAt("listIssues", r, 0) : trace[k].ok
         /\ \A i \in 1..Len(IssuesListed(r)) :
              /\ IF flags.dryRun THEN PrintsAt("issue", r, i, 0) # {}
                                 ELSE CallsAt("createStory", r, i) # {}
              /\ CommentsComplete(r, i)

(* A finished live run over the same repository name twice, in which one   *)
(* listing returned two different issues and an issue had a comment         *)
C4_Witness ==
  /\ pc = "Done"
  /\ ~flags.dryRun
  /\ Len(repos) = 2
  /\ repos[1] = repos[2]
  /\ \E r \in 1..Len(repos) :
       /\ Len(IssuesListed(r)) = 2
       /\ IssuesListed(r)[1] # IssuesListed(r)[2]
  /\ \E k \in Idx : trace[k].ev = "addComment" /\ trace[k].c = 1

(* C5: when listIssues fails for the repository at position r the run      *)
(* aborts there: it is in the fatal state and never Done, no issue of       *)
(* repository r is migrated, no remote call follows the failed one, and no  *)
(* later repository is touched.                                             *)
C5_ListIssuesFailureAborts ==
  \A k \in Idx :
    (trace[k].ev = "listIssues" /\ ~trace[k].ok) =>
      /\ pc = "Fatal"
      /\ \A l \in (k + 1)..Len(trace) : trace[l].ev = "fatal"
      /\ \A l \in Idx : trace[l].r <= trace[k].r
      /\ \A l \in Idx : trace[l].r = trace[k].r => trace[l].i = 0
      /\ repoIdx = trace[k].r
      /\ iss = IF trace[k].r = 1 THEN <<>> ELSE IssuesListed(trace[k].r - 1)

(* The listing of the first of two repositories failed *)
C5_Witness ==
  /\ Len(repos) = 2
  /\ \E k \in Idx : trace[k].ev = "listIssues" /\ ~trace[k].ok /\ trace[k].r = 1

(* C6: in live mode a failed createStory or addComment stops the whole run: *)
(* the run is in the fatal state, the failed call is the last remote call   *)
(* of the trace (no retry, no further call for this issue, a later issue or *)
(* a later repository) and the loop positions stay where the failure was.   *)
C6_DestinationFailureAborts ==
  \A k \in Idx :
    (trace[k].ev \in DestOps /\ ~trace[k].ok) =>
      /\ pc = "Fatal"
      /\ \A l \in (k + 1)..Len(trace) : trace[l].ev = "fatal"
      /\ <<repoIdx, isIdx, cmIdx>> = <<trace[k].r, trace[k].i, trace[k].c>>

(* The first of two comments could not be attached while another            *)
(* repository was still to come                                             *)
C6_Witness ==
  /\ Len(repos) = 2
  /\ repoIdx = 1
  /\ Len(ghComments) = 2
  /\ \E k \in Idx : trace[k].ev = "addComment" /\ ~trace[k].ok /\ trace[k].c = 1

EndsWith(s, suffix) ==
  /\ Len(suffix) <= Len(s)
  /\ SubSeq(s, Len(s) - Len(suffix) + 1, Len(s)) = suffix

(* Every issue the source returned has exactly one createStory call, with  *)
(* the issue's title and the configured project, and every comment returned *)
(* for it exactly one addComment call, with the configured project, the     *)
(* identifier returned for the issue's story and a text ending in the       *)
(* comment's body; the destination got no other call.                       *)
EveryRecordWrittenOnce ==
  /\ \A r \in 1..Len(repos) : \A i \in 1..Len(IssuesListed(r)) :
       /\ Cardinality(CallsAt("createStory", r, i)) = 1
       /\ \A k \in CallsAt("createStory", r, i) :
            /\ trace[k].arg.projId = flags.ptProjId
            /\ trace[k].arg.req.Name = Deref(IssuesListed(r)[i].Title)
            /\ \A c \in 1..Len(CommentsListed(r, i)) :
                 LET as == {a \in CallsAt("addComment", r, i) : trace[a].c = c}
                 IN  /\ Cardinality(as) = 1
                     /\ \A a \in as :
                          /\ trace[a].arg.projId = flags.ptProjId
                          /\ trace[a].arg.storyId = Deref(trace[k].res).Id
                          /\ EndsWith(trace[a].arg.req.Text,
                                      Deref(CommentsListed(r, i)[c].Body))
  /\ \A k \in Idx :
       /\ trace[k].ev = "createStory" =>
            (trace[k].r \in 1..Len(repos) /\ trace[k].i \in 1..Len(IssuesListed(trace[k].r)))
       /\ trace[k].ev = "addComment" =>
            /\ trace[k].r \in 1..Len(repos)
            /\ trace[k].i \in 1..Len(IssuesListed(trace[k].r))
            /\ trace[k].c \in 1..Len(CommentsListed(trace[k].r, trace[k].i))

(* C8: a live run in which no remote call fails has, once it is over,       *)
(* called createStory exactly once for every issue listIssues returned and  *)
(* addComment exactly once for every comment listComments returned, with    *)
(* the arguments above, and made no other destination call.                 *)
C8_LiveRunWritesEveryRecordOnce ==
  (~flags.dryRun /\ Terminated /\ NoRemoteFailure) => EveryRecordWrittenOnce

(* The same, of the runs that reach Done only *)
LiveRunDoneWritesEveryRecordOnce ==
  (~flags.dryRun /\ pc = "Done") => EveryRecordWrittenOnce

(* Every issue the source returned had its comments fetched exactly once,  *)
(* every comment returned was printed once as it came and once converted,   *)
(* and no story identifier was involved.                                    *)
EveryCommentPrintedOnce ==
  /\ \A r \in 1..Len(repos) : \A i \in 1..Len(IssuesListed(r)) :
       /\ Cardinality(CallsAt("listComments", r, i)) = 1
       /\ \A c \in 1..Len(CommentsListed(r, i)) :
            /\ Cardinality(PrintsAt("issue comment", r, i, c)) = 1
            /\ Cardinality(PrintsAt("story comment", r, i, c)) = 1
            /\ \A k \in PrintsAt("story comment", r, i, c) :
                 trace[k].arg.text
                   = printStoryComment(convertComment(CommentsListed(r, i)[c]))
  /\ newStory = Nil
  /\ \A k \in Idx : trace[k].ev \notin DestOps

(* C9: a dry run in which no source call fails has, once it is over,        *)
(* fetched the comments of every issue listIssues returned exactly once and *)
(* printed every returned comment in its two blocks, with no story          *)
(* identifier in play.                                                      *)
C9_DryRunCommentPhaseRuns ==
  (flags.dryRun /\ Terminated /\ NoRemoteFailure) => EveryCommentPrintedOnce

(* The same, of the runs that reach Done only *)
DryRunDoneCommentPhaseRuns ==
  (flags.dryRun /\ pc = "Done") => EveryCommentPrintedOnce

EverythingProcessed ==
  \A r \in 1..Len(repos) :
    /\ \E k \in CallsAt("listIssues", r, 0) : trace[k].ok
    /\ \A i \in 1..Len(IssuesListed(r)) :
         /\ IF flags.dryRun THEN PrintsAt("story", r, i, 0) # {}
                            ELSE \E k \in CallsAt("createStory", r, i) : trace[k].ok
         /\ CommentsComplete(r, i)

(* C11: a run over a non-empty repository list in which no remote call     *)
(* fails ends in Done, with the summary printed last, and Done is reached   *)
(* only after every repository, issue and comment has been processed.       *)
C11_EndsInDoneWhenNothingFails ==
  /\ (Terminated /\ Len(repos) > 0 /\ NoRemoteFailure) => pc = "Done"
  /\ pc = "Done" =>
       /\ IsPrint(Len(trace), "finished")
       /\ EverythingProcessed

(* The second half alone: what Done implies *)
DoneOnlyAfterEverything ==
  pc = "Done" => (Len(repos) > 0 /\ NoRemoteFailure /\ EverythingProcessed)

(* C18: a run ends only in Done or in the fatal state, and the fatal state *)
(* is entered only on an empty repository list or a failed remote call;     *)
(* whatever records the source returns, absent optional fields included,    *)
(* conversion and printing never end the run in another way.                *)
C18_OnlyDoneOrLoggedFatal ==
  /\ pc # "Panic"
  /\ pc = "Fatal" => (Len(repos) = 0 \/ ~NoRemoteFailure)

(* The second half alone: why a run is fatal *)
FatalOnlyWhenLogged ==
  pc = "Fatal" =>
    /\ trace[Len(trace)].ev = "fatal"
    /\ (Len(repos) = 0 \/ ~NoRemoteFailure)

(* C12: truncation touches only what is displayed: the description of every *)
(* createStory call and the text of every addComment call is the whole      *)
(* provenance block followed by the whole body of the record it was made    *)
(* from, however long, and so is what the destination stores; the printed   *)
(* story and comment blocks are the ones that carry the truncated text.     *)
C12_TruncationOnlyDisplayed ==
  /\ \A k \in Idx :
       LET r == trace[k].r
           i == trace[k].i
           c == trace[k].c
       IN  /\ trace[k].ev = "createStory" =>
                LET src == IssuesListed(r)[i]
                IN  trace[k].arg.req.Description
                      = IssueProvenance(src) \o Deref(src.Body)
           /\ trace[k].ev = "addComment" =>
                LET src == CommentsListed(r, i)[c]
                IN  trace[k].arg.req.Text = CommentProvenance(src) \o Deref(src.Body)
           /\ IsPrint(k, "story") =>
                LET sr == convertIssue(repos[r], IssuesListed(r)[i])
                IN  trace[k].arg.text = printStory(sr)
           /\ IsPrint(k, "story comment") =>
                trace[k].arg.text
                  = printStoryComment(convertComment(CommentsListed(r, i)[c]))
  /\ \A n \in DOMAIN pivotal :
       \E k \in Idx :
         /\ trace[k].ev = "createStory"
         /\ trace[k].ok
         /\ pivotal[n].req = trace[k].arg.req

(* A story and a comment went to the destination with more text than trunc *)
(* keeps                                                                    *)
C12_Witness ==
  /\ \E k \in Idx :
       trace[k].ev = "createStory" /\ Len(trace[k].arg.req.Description) > TruncLen
  /\ \E k \in Idx :
       trace[k].ev = "addComment" /\ Len(trace[k].arg.req.Text) > TruncLen

(* The stories the destination holds according to the calls that succeeded *)
StoriesCreated ==
  LET made == SelectSeq(trace, LAMBDA e : e.ev = "createStory" /\ e.ok)
      attached(id) ==
        SelectSeq(trace, LAMBDA e : e.ev = "addComment" /\ e.ok /\ e.arg.storyId = id)
  IN  [n \in DOMAIN made |->
        LET id == Deref(made[n].res).Id
            cs == attached(id)
        IN  [Id |-> id, req |-> made[n].arg.req,
             comments |-> [m \in DOMAIN cs |-> cs[m].arg.req]]]

(* C17: nothing is rolled back: at every moment of a run, aborted or not,   *)
(* the destination holds exactly the stories and comments whose create      *)
(* calls have succeeded so far, in that order; after a failed addComment (or*)
(* listComments) the issue's story is still there with the comments         *)
(* attached before the failure.                                             *)
C17_NoRollback ==
  /\ pivotal = StoriesCreated
  /\ (pc = "Fatal" /\ ~flags.dryRun /\ cmIdx >= 1) =>
       /\ Len(pivotal) >= 1
       /\ pivotal[Len(pivotal)].Id = Deref(newStory).Id
       /\ Len(pivotal[Len(pivotal)].comments) = cmIdx - 1
  /\ (pc = "Fatal" /\ ~flags.dryRun /\ isIdx >= 1 /\ cmIdx = 0
        /\ \E k \in Idx : trace[k].ev = "listComments" /\ ~trace[k].ok) =>
       /\ Len(pivotal) >= 1
       /\ pivotal[Len(pivotal)].Id = Deref(newStory).Id
       /\ pivotal[Len(pivotal)].comments = <<>>

(* The second comment of an issue could not be attached: the story stays   *)
(* with its first comment                                                   *)
C17_Witness ==
  /\ pc = "Fatal"
  /\ \E k \in Idx : trace[k].ev = "addComment" /\ ~trace[k].ok /\ trace[k].c = 2
  /\ Len(pivotal) = 1
  /\ Len(pivotal[1].comments) = 1

----------------------------------------------------------------------------
(* The converter's functions on their own: trunc, convertIssue and          *)
(* convertComment applied once to an input drawn from the sets below.       *)
(* fnArg is the call, fnRes its outcome: <<"ok", value>> or <<"panic">>.    *)

Digits == Repeat("0123456789", (MaxStrLen \div 10) + 2)

(* Strings of every length up to MaxStrLen, cut from two places of Digits   *)
TruncInputs == {SubSeq(Digits, off, off + n - 1) : off \in {1, 4}, n \in 0..MaxStrLen}

IssueInputs ==
  [Number : {Ptr(42)},
   Title : {Ptr("Bug: crash on load"), Nil},
   HTMLURL : {Ptr("https://gh/acme/i/42"), Nil},
   CreatedAt : {Ptr(1), Ptr(2), Nil},
   Body : {Ptr(""), Ptr("steps..."), Ptr("please: " \o LongBody), Nil},
   Labels : {<<>>, <<"bug">>, <<"docs", "easy">>}]

CommentInputs ==
  [HTMLURL : {Ptr("https://gh/acme/c/1"), Nil},
   CreatedAt : {Ptr(4), Nil},
   User : {Ptr([Login |-> Ptr("alice")]), Ptr([Login |-> Nil]), Nil},
   Body : {Ptr(""), Ptr("confirmed"), Ptr("me too: " \o LongBody), Nil}]

FnCalls ==
  {[fn |-> "trunc", s |-> s] : s \in TruncInputs}
    \cup {[fn |-> "convertIssue", repo |-> n, is |-> x] : n \in RepoNames, x \in IssueInputs}
    \cup {[fn |-> "convertComment", cm |-> x] : x \in CommentInputs}

FnInit ==
  /\ fnArg \in FnCalls
  /\ fnRes = Nil
  /\ flags = [owner |-> Owner, repos |-> <<>>, ptProjId |-> CHOOSE n \in ProjIds : TRUE,
              limit |-> CHOOSE n \in Limits : TRUE, dryRun |-> TRUE]
  /\ pc = "fn"
  /\ repoIdx = 0
  /\ iss = <<>>
  /\ isIdx = 0
  /\ newStory = Nil
  /\ ghComments = <<>>
  /\ cmIdx = 0
  /\ nextStoryId \in FirstStoryIds
  /\ sourceLeft = 0
  /\ pivotal = <<>>
  /\ trace = <<>>

mainVars == <<flags, pc, repoIdx, iss, isIdx, newStory, ghComments, cmIdx,
              nextStoryId, sourceLeft, pivotal, trace>>

(* main.go:235-241 *)
ApplyTrunc ==
  /\ fnRes = Nil
  /\ fnArg.fn = "trunc"
  /\ fnRes' = <<"ok", trunc(fnArg.s)>>
  /\ UNCHANGED <<mainVars, fnArg>>

(* main.go:136-162 *)
ApplyConvertIssue ==
  /\ fnRes = Nil
  /\ fnArg.fn = "convertIssue"
  /\ fnRes' = IF convertIssuePanics(fnArg.is) THEN <<"panic">>
              ELSE <<"ok", convertIssue(fnArg.repo, fnArg.is)>>
  /\ UNCHANGED <<mainVars, fnArg>>

(* main.go:164-181 *)
ApplyConvertComment ==
  /\ fnRes = Nil
  /\ fnArg.fn = "convertComment"
  /\ fnRes' = IF convertCommentPanics(fnArg.cm) THEN <<"panic">>
              ELSE <<"ok", convertComment(fnArg.cm)>>
  /\ UNCHANGED <<mainVars, fnArg>>

FnNext == ApplyTrunc \/ ApplyConvertIssue \/ ApplyConvertComment

FnSpec == FnInit /\ [][FnNext]_vars

Returned(fn) == fnArg.fn = fn /\ fnRes # Nil /\ fnRes[1] = "ok"

Contains(s, sub) ==
  \E k \in 1..(Len(s) - Len(sub) + 1) : SubSeq(s, k, k + Len(sub) - 1) = sub

(* C13: trunc(s) is s itself when s is shorter than 255, and otherwise the  *)
(* first 255 characters of s: always a prefix of s, and a string of exactly *)
(* 255 comes back whole.                                                    *)
C13_TruncKeepsFirst255 ==
  Returned("trunc") =>
    LET s == fnArg.s
        t == fnRes[2]
    IN  /\ Len(s) < 255 => t = s
        /\ Len(s) >= 255 => Len(t) = 255
        /\ Len(s) = 255 => t = s
        /\ Len(t) <= Len(s)
        /\ s = t \o SubSeq(s, Len(t) + 1, Len(s))

(* trunc was given a string longer than 255 *)
C13_Witness == Returned("trunc") /\ Len(fnArg.s) > 255

(* The labels of a story that start with prefix *)
LabelsWithPrefix(labels, prefix) ==
  {k \in 1..Len(labels) :
     Len(labels[k]) >= Len(prefix) /\ SubSeq(labels[k], 1, Len(prefix)) = prefix}

C15_DescriptionIsProvenanceThenBody ==
  Returned("convertIssue") =>
    LET sr == fnRes[2]
        is_ == fnArg.is
        body == Deref(is_.Body)
        d == sr.Description
        block == SubSeq(d, 1, Len(d) - Len(body))
    IN  /\ sr.Name = Deref(is_.Title)
        /\ Len(d) >= Len(body)
        /\ EndsWith(d, body)
        /\ Contains(block, Deref(is_.HTMLURL))
        /\ Contains(block, TimeString(Deref(is_.CreatedAt)))
        /\ Contains(block, SliceQ(is_.Labels))

(* An issue with a long body and two labels was converted *)
C15_Witness ==
  /\ Returned("convertIssue")
  /\ Len(Deref(fnArg.is.Body)) > 255
  /\ Len(fnArg.is.Labels) = 2
  /\ Len(fnRes[2].Description) > Len(Deref(fnArg.is.Body))

(* C16: the comment's text ends with the comment's body, unmodified, and    *)
(* what precedes the body contains the comment's URL, its creation time and *)
(* its author's login.                                                      *)
C16_TextIsProvenanceThenBody ==
  Returned("convertComment") =>
    LET cm_ == fnArg.cm
        body == Deref(cm_.Body)
        t == fnRes[2].Text
        block == SubSeq(t, 1, Len(t) - Len(body))
    IN  /\ Len(t) >= Len(body)
        /\ EndsWith(t, body)
        /\ Contains(block, Deref(cm_.HTMLURL))
        /\ Contains(block, TimeString(Deref(cm_.CreatedAt)))
        /\ Contains(block, Deref(Deref(cm_.User).Login))

(* A comment with a long body was converted *)
C16_Witness ==
  /\ Returned("convertComment")
  /\ Len(Deref(fnArg.cm.Body)) > 255
  /\ Len(fnRes[2].Text) > Len(Deref(fnArg.cm.Body))

====
